---- MODULE Spec2Model ----
(***************************************************************************)
(* A model of sre.py, the console assistant that turns a language model's  *)
(* reply into a call of the mcp-server-datadog tool process.               *)
(*                                                                         *)
(* Texts (payloads, replies, process output) are TLA+ strings, handled     *)
(* character by character as Python handles them.  The characters of the   *)
(* texts are the ones a TLA+ string can hold: the printable ASCII          *)
(* characters and the control characters \t \n \r \f; the other control    *)
(* characters and the characters beyond ASCII are outside the model.  JSON *)
(* texts are decoded by JsonLoads, a recursive-descent decoder for the     *)
(* subset of JSON the inputs of this model use: objects, arrays, strings   *)
(* with the escapes \" \\ \/ \n \t \r \f, non-negative integers, true,     *)
(* false, null.                                                            *)
(*                                                                         *)
(* A step of the model is a whole statement or handler of the program.     *)
(* Signals are outside the model: a KeyboardInterrupt is raised between    *)
(* any two instructions, which no step of this grain can place.  What the  *)
(* console gives at the prompt, a line or its end, is inside.              *)
(***************************************************************************)
EXTENDS Integers, Sequences, FiniteSets, TLC

----------------------------------------------------------------------------
(* Python str operations *)

\* s[i] (1-based), "" past either end
Ch(s, i) == IF 1 <= i /\ i <= Len(s) THEN SubSeq(s, i, i) ELSE ""

\* s[i:].startswith(pat)
StartsAt(s, pat, i) ==
    /\ i >= 1
    /\ i + Len(pat) - 1 <= Len(s)
    /\ SubSeq(s, i, i + Len(pat) - 1) = pat

SetMin(S) == CHOOSE i \in S : \A j \in S : i <= j
SetMax(S) == CHOOSE i \in S : \A j \in S : i >= j

\* s.find(pat, from): the least index >= from where pat starts; 0 when there
\* is none (Python's -1)
Find(s, pat, from) ==
    LET C == {i \in from..(Len(s) - Len(pat) + 1) : StartsAt(s, pat, i)}
    IN  IF C = {} THEN 0 ELSE SetMin(C)

\* s.rfind(pat)
RFind(s, pat) ==
    LET C == {i \in 1..(Len(s) - Len(pat) + 1) : StartsAt(s, pat, i)}
    IN  IF C = {} THEN 0 ELSE SetMax(C)

\* pat in s
Contains(s, pat) == Find(s, pat, 1) # 0

\* s[i:]
SliceFrom(s, i) == SubSeq(s, i, Len(s))

LowerAlphabet == "abcdefghijklmnopqrstuvwxyz"
UpperAlphabet == "ABCDEFGHIJKLMNOPQRSTUVWXYZ"
Digits == {"0", "1", "2", "3", "4", "5", "6", "7", "8", "9"}
\* the characters str.strip() strips and \s of a regular expression matches,
\* among the characters of the model's texts
Whitespace == {" ", "\t", "\n", "\r", "\f"}

\* the first place of s that holds a character of the string chars, 0 if none
FirstOf(s, chars) ==
    LET K == {i \in 1..Len(s) : Contains(chars, Ch(s, i))}
    IN  IF K = {} THEN 0 ELSE SetMin(K)

\* s with every character that stands in from replaced by the one at the same
\* place in to
RECURSIVE MapChars(_, _, _)
MapChars(s, from, to) ==
    LET k == FirstOf(s, from)
    IN  IF k = 0 THEN s
        ELSE SubSeq(s, 1, k - 1) \o Ch(to, Find(from, Ch(s, k), 1))
                 \o MapChars(SliceFrom(s, k + 1), from, to)

\* s.lower(), s.upper()
Lower(s) == MapChars(s, UpperAlphabet, LowerAlphabet)
Upper(s) == MapChars(s, LowerAlphabet, UpperAlphabet)

\* the first place from i on, and the last place up to i, that holds no whitespace
RECURSIVE FirstInk(_, _)
FirstInk(s, i) == IF Ch(s, i) \in Whitespace THEN FirstInk(s, i + 1) ELSE i
RECURSIVE LastInk(_, _)
LastInk(s, i) == IF Ch(s, i) \in Whitespace THEN LastInk(s, i - 1) ELSE i

\* s.strip()
Strip(s) == SubSeq(s, FirstInk(s, 1), LastInk(s, Len(s)))

\* s.split('\n')
RECURSIVE SplitLines(_)
SplitLines(s) ==
    LET k == Find(s, "\n", 1)
    IN  IF k = 0 THEN <<s>>
        ELSE <<SubSeq(s, 1, k - 1)>> \o SplitLines(SliceFrom(s, k + 1))

\* text=True of lines 116-124: what communicate gives for the text a stream
\* of the process holds, every \r\n and every lone \r read as \n
RECURSIVE UniversalNewlines(_)
UniversalNewlines(s) ==
    LET k == Find(s, "\r", 1)
    IN  IF k = 0 THEN s
        ELSE SubSeq(s, 1, k - 1) \o "\n"
                 \o UniversalNewlines(
                        SliceFrom(s, IF Ch(s, k + 1) = "\n" THEN k + 2 ELSE k + 1))

----------------------------------------------------------------------------
(* JSON values, as json.loads builds them *)

JStr(x)  == [t |-> "str",  v |-> x]
JNum(d)  == [t |-> "num",  v |-> d]    \* the digits, as text
JBool(b) == [t |-> "bool", v |-> b]    \* "true" or "false"
JNull    == [t |-> "null", v |-> ""]   \* None
JArr(xs) == [t |-> "arr",  v |-> xs]   \* list
JObj(ps) == [t |-> "obj",  v |-> ps]   \* dict: <<key, value>> in insertion order

IsStr(x)  == x.t = "str"
IsList(x) == x.t = "arr"
IsDict(x) == x.t = "obj"

\* key in d
HasKey(d, k) == \E n \in 1..Len(d.v) : d.v[n][1] = k
\* d[key], for a key that is there
GetKey(d, k) == d.v[CHOOSE n \in 1..Len(d.v) : d.v[n][1] = k][2]
\* d.get(key, default)
DictGet(d, k, default) == IF HasKey(d, k) THEN GetKey(d, k) ELSE default
\* d[key] = value: a present key keeps its place, a new one goes last
SetKey(d, k, x) ==
    IF HasKey(d, k)
    THEN JObj([n \in 1..Len(d.v) |->
                  IF d.v[n][1] = k THEN <<k, x>> ELSE d.v[n]])
    ELSE JObj(Append(d.v, <<k, x>>))

----------------------------------------------------------------------------
(* json.loads *)

NoParse == [ok |-> FALSE, v |-> JNull, i |-> 0]
Parsed(x, i) == [ok |-> TRUE, v |-> x, i |-> i]

\* the whitespace of JSON is the space, the tab, the line feed and the
\* carriage return; a form feed is none
RECURSIVE SkipWs(_, _)
SkipWs(s, i) ==
    IF Ch(s, i) \in {" ", "\t", "\n", "\r"} THEN SkipWs(s, i + 1) ELSE i

\* the backslashes that stand in a row right before j, none before i
RECURSIVE BackslashRun(_, _, _)
BackslashRun(s, i, j) ==
    IF j > i /\ Ch(s, j - 1) = "\\" THEN 1 + BackslashRun(s, i, j - 1) ELSE 0

\* whether every escape of a string body is one of the subset
ValidEscapes(body) ==
    \A k \in 1..Len(body) :
        (Ch(body, k) = "\\" /\ BackslashRun(body, 1, k) % 2 = 0)
            => Ch(body, k + 1) \in {"\"", "\\", "/", "n", "t", "r", "f"}

\* the character an escape stands for
Escaped(e) ==
    IF e = "n" THEN "\n"
    ELSE IF e = "t" THEN "\t"
    ELSE IF e = "r" THEN "\r"
    ELSE IF e = "f" THEN "\f"
    ELSE e

\* the text of a string body whose escapes are valid
RECURSIVE Unescape(_)
Unescape(body) ==
    LET k == Find(body, "\\", 1)
    IN  IF k = 0 THEN body
        ELSE SubSeq(body, 1, k - 1) \o Escaped(Ch(body, k + 1))
                 \o Unescape(SliceFrom(body, k + 2))

\* the first quote from j on that no backslash escapes, in a string whose
\* body starts at i; 0 if there is none (the text is searched a stretch at a
\* time)
RECURSIVE ClosingQuote(_, _, _)
ClosingQuote(s, i, j) ==
    LET Q == {k \in j..(j + 15) :
                 /\ Ch(s, k) = "\""
                 /\ BackslashRun(s, i, k) % 2 = 0}
    IN  IF Q # {} THEN SetMin(Q)
        ELSE IF j + 15 >= Len(s) THEN 0
        ELSE ClosingQuote(s, i, j + 16)

\* the string whose body is body and whose closing quote stands at j; a
\* control character that stands in the body as it is makes json.loads raise
StringOf(body, j) ==
    IF FirstOf(body, "\n\t\r\f") # 0 THEN NoParse
    ELSE IF ~ValidEscapes(body) THEN NoParse
    ELSE Parsed(JStr(Unescape(body)), j + 1)

\* the string whose body starts at i and whose closing quote stands at j, 0
\* if it has none
StringUpTo(s, i, j) ==
    IF j = 0 THEN NoParse ELSE StringOf(SubSeq(s, i, j - 1), j)

\* the string whose opening quote stands right before i: it ends at the first
\* quote that no backslash escapes
ScanString(s, i) == StringUpTo(s, i, ClosingQuote(s, i, i))

RECURSIVE DigitsEnd(_, _)
DigitsEnd(s, i) == IF Ch(s, i) \in Digits THEN DigitsEnd(s, i + 1) ELSE i

NumberUpTo(s, i, j) == Parsed(JNum(SubSeq(s, i, j - 1)), j)

ScanNumber(s, i) ==
    NumberUpTo(s, i, IF Ch(s, i) = "0" THEN i + 1 ELSE DigitsEnd(s, i))

RECURSIVE ScanOnce(_, _)
RECURSIVE ScanElements(_, _, _)
RECURSIVE ScanMembers(_, _, _)
RECURSIVE ElementEnd(_, _, _)
RECURSIVE ElementScanned(_, _, _)
RECURSIVE MemberEnd(_, _, _)
RECURSIVE MemberScanned(_, _, _, _)
RECURSIVE MemberValue(_, _, _, _)
RECURSIVE MemberKey(_, _, _)

\* after an element: j stands at the bracket that ends the array xs, or at
\* the comma before the next element
ElementEnd(s, j, xs) ==
    IF Ch(s, j) = "]" THEN Parsed(JArr(xs), j + 1)
    ELSE IF Ch(s, j) = "," THEN ScanElements(s, SkipWs(s, j + 1), xs)
    ELSE NoParse

\* r is what the scan of an element gave
ElementScanned(s, r, acc) ==
    IF ~r.ok THEN NoParse ELSE ElementEnd(s, SkipWs(s, r.i), Append(acc, r.v))

\* the elements of an array, i standing at an element
ScanElements(s, i, acc) == ElementScanned(s, ScanOnce(s, i), acc)

\* after a member: j stands at the brace that ends the object d, or at the
\* comma before the next member
MemberEnd(s, j, d) ==
    IF Ch(s, j) = "}" THEN Parsed(d, j + 1)
    ELSE IF Ch(s, j) = "," THEN ScanMembers(s, SkipWs(s, j + 1), d)
    ELSE NoParse

\* r is what the scan of the value of key gave
MemberScanned(s, key, r, acc) ==
    IF ~r.ok THEN NoParse
    ELSE MemberEnd(s, SkipWs(s, r.i), SetKey(acc, key, r.v))

\* c stands after the key, where the colon must be
MemberValue(s, key, c, acc) ==
    IF Ch(s, c) # ":" THEN NoParse
    ELSE MemberScanned(s, key, ScanOnce(s, SkipWs(s, c + 1)), acc)

\* k is what the scan of the key gave
MemberKey(s, k, acc) ==
    IF ~k.ok THEN NoParse ELSE MemberValue(s, k.v.v, SkipWs(s, k.i), acc)

\* the members of an object, i standing at a key
ScanMembers(s, i, acc) ==
    IF Ch(s, i) # "\"" THEN NoParse ELSE MemberKey(s, ScanString(s, i + 1), acc)

\* an object or an array whose first member or element, if any, stands at j
ScanObject(s, j) ==
    IF Ch(s, j) = "}" THEN Parsed(JObj(<<>>), j + 1)
    ELSE ScanMembers(s, j, JObj(<<>>))

ScanArray(s, j) ==
    IF Ch(s, j) = "]" THEN Parsed(JArr(<<>>), j + 1)
    ELSE ScanElements(s, j, <<>>)

\* one JSON value standing at i
ScanOnce(s, i) ==
    IF Ch(s, i) = "\"" THEN ScanString(s, i + 1)
    ELSE IF Ch(s, i) = "{" THEN ScanObject(s, SkipWs(s, i + 1))
    ELSE IF Ch(s, i) = "[" THEN ScanArray(s, SkipWs(s, i + 1))
    ELSE IF Ch(s, i) \in Digits THEN ScanNumber(s, i)
    ELSE IF StartsAt(s, "true", i) THEN Parsed(JBool("true"), i + 4)
    ELSE IF StartsAt(s, "false", i) THEN Parsed(JBool("false"), i + 5)
    ELSE IF StartsAt(s, "null", i) THEN Parsed(JNull, i + 4)
    ELSE NoParse

\* r is what the scan of the text gave: nothing but whitespace may follow
LoadsResult(s, r) ==
    IF r.ok /\ SkipWs(s, r.i) = Len(s) + 1
    THEN [ok |-> TRUE, v |-> r.v]
    ELSE [ok |-> FALSE, v |-> JNull]

\* json.loads(s): ok is FALSE where Python raises JSONDecodeError
JsonLoads(s) == LoadsResult(s, ScanOnce(s, SkipWs(s, 1)))

----------------------------------------------------------------------------
(* json.dumps, str() and type names *)

\* the body of the JSON string of s
RECURSIVE EscapeString(_)
EscapeString(s) ==
    LET k == FirstOf(s, "\"\\\n\t\r\f")
        c == Ch(s, k)
    IN  IF k = 0 THEN s
        ELSE SubSeq(s, 1, k - 1)
                 \o (IF c = "\n" THEN "\\n"
                     ELSE IF c = "\t" THEN "\\t"
                     ELSE IF c = "\r" THEN "\\r"
                     ELSE IF c = "\f" THEN "\\f"
                     ELSE "\\" \o c)
                 \o EscapeString(SliceFrom(s, k + 1))

RECURSIVE JsonDumps(_)
RECURSIVE DumpItems(_, _)
\* the items of a list (pairs = FALSE) or a dict (pairs = TRUE), ", " between
DumpItems(xs, pairs) ==
    IF xs = <<>> THEN ""
    ELSE (IF pairs
          THEN "\"" \o EscapeString(Head(xs)[1]) \o "\": " \o JsonDumps(Head(xs)[2])
          ELSE JsonDumps(Head(xs)))
         \o (IF Len(xs) > 1 THEN ", " ELSE "")
         \o DumpItems(Tail(xs), pairs)

\* json.dumps(x) with the default separators
JsonDumps(x) ==
    IF x.t = "str" THEN "\"" \o EscapeString(x.v) \o "\""
    ELSE IF x.t = "num" THEN x.v
    ELSE IF x.t = "bool" THEN x.v
    ELSE IF x.t = "null" THEN "null"
    ELSE IF x.t = "arr" THEN "[" \o DumpItems(x.v, FALSE) \o "]"
    ELSE "{" \o DumpItems(x.v, TRUE) \o "}"

\* type(x).__name__
TypeName(x) ==
    IF x.t = "str" THEN "str"
    ELSE IF x.t = "num" THEN "int"
    ELSE IF x.t = "bool" THEN "bool"
    ELSE IF x.t = "null" THEN "NoneType"
    ELSE IF x.t = "arr" THEN "list"
    ELSE "dict"

RECURSIVE PyRepr(_)
RECURSIVE ReprItems(_, _)
ReprItems(xs, pairs) ==
    IF xs = <<>> THEN ""
    ELSE (IF pairs
          THEN "'" \o Head(xs)[1] \o "': " \o PyRepr(Head(xs)[2])
          ELSE PyRepr(Head(xs)))
         \o (IF Len(xs) > 1 THEN ", " ELSE "")
         \o ReprItems(Tail(xs), pairs)

\* repr(x), for strings that hold no quote, backslash or control character
PyRepr(x) ==
    IF x.t = "str" THEN "'" \o x.v \o "'"
    ELSE IF x.t = "num" THEN x.v
    ELSE IF x.t = "bool" THEN (IF x.v = "true" THEN "True" ELSE "False")
    ELSE IF x.t = "null" THEN "None"
    ELSE IF x.t = "arr" THEN "[" \o ReprItems(x.v, FALSE) \o "]"
    ELSE "{" \o ReprItems(x.v, TRUE) \o "}"

\* str(x), what an f-string interpolates
PyStr(x) == IF x.t = "str" THEN x.v ELSE PyRepr(x)

----------------------------------------------------------------------------
(* Exceptions: Ok(x) is a value, Raise(type, msg) an exception raised *)

Ok(x) == [ok |-> TRUE, v |-> x, exc |-> "", msg |-> ""]
Raise(type, msg) == [ok |-> FALSE, v |-> JNull, exc |-> type, msg |-> msg]

\* x[key] for a str key
Subscript(x, key) ==
    IF IsDict(x) THEN
        IF HasKey(x, key) THEN Ok(GetKey(x, key))
        ELSE Raise("KeyError", "'" \o key \o "'")
    ELSE IF IsList(x)
        THEN Raise("TypeError", "list indices must be integers or slices, not str")
    ELSE IF IsStr(x)
        THEN Raise("TypeError", "string indices must be integers, not 'str'")
    ELSE Raise("TypeError", "'" \o TypeName(x) \o "' object is not subscriptable")

\* x[0]
Index0(x) ==
    IF IsList(x) THEN
        IF Len(x.v) > 0 THEN Ok(x.v[1])
        ELSE Raise("IndexError", "list index out of range")
    ELSE IF IsDict(x) THEN Raise("KeyError", "0")
    ELSE IF IsStr(x) THEN
        IF Len(x.v) > 0 THEN Ok(JStr(Ch(x.v, 1)))
        ELSE Raise("IndexError", "string index out of range")
    ELSE Raise("TypeError", "'" \o TypeName(x) \o "' object is not subscriptable")

----------------------------------------------------------------------------
(* call_mcp_tool: its results *)

\* {"result": x}
ResultOf(x) == JObj(<< <<"result", x>> >>)
\* {"error": msg}
ErrorOf(msg) == JObj(<< <<"error", JStr(msg)>> >>)
\* {"error": msg, "raw_response": response}
ErrorWithResponse(msg, response) ==
    JObj(<< <<"error", JStr(msg)>>, <<"raw_response", response>> >>)

IsResult(r) == HasKey(r, "result")
IsError(r)  == HasKey(r, "error")
ErrorText(r) == GetKey(r, "error").v

MCP_SERVER_COMMAND == "['node', 'mcp-server-datadog/build/index.js']"
CommunicateTimeout == 15

\* what the handler of line 196 returns for an exception with text msg
CallFailed(msg) == ErrorOf("Error calling MCP tool: " \o msg)

\* str(subprocess.TimeoutExpired)
TimeoutExpiredText ==
    "Command '" \o MCP_SERVER_COMMAND \o "' timed out after "
        \o ToString(CommunicateTimeout) \o " seconds"

AllGroupStates == JArr(<<JStr("alert"), JStr("warn"), JStr("no data"), JStr("ok")>>)

\* lines 92-98: the arguments the request carries; None, the default of the
\* parameter, stands for no arguments
DefaultArguments(tool_name, arguments) ==
    LET given == IF arguments = JNull THEN JObj(<<>>) ELSE arguments
    IN  IF tool_name = JStr("get_monitors") /\ ~HasKey(given, "groupStates")
        THEN SetKey(given, "groupStates", AllGroupStates)
        ELSE given

\* line 100, for a clock reading of ms milliseconds
RequestId(ms) == "req-" \o ToString(ms)

\* lines 101-110
McpRequest(request_id, tool_name, arguments) ==
    JObj(<< <<"jsonrpc", JStr("2.0")>>,
            <<"id", JStr(request_id)>>,
            <<"method", JStr("tools/call")>>,
            <<"params", JObj(<< <<"name", tool_name>>,
                                <<"arguments", arguments>> >>)>> >>)

----------------------------------------------------------------------------
(* call_mcp_tool: the response among the output lines, lines 141-152 *)

NoResponse == [found |-> FALSE, response |-> JNull, at |-> 0]

\* lines 144-145 on what json.loads made of a line: whether it is the response
\* of request_id, a dict whose id is request_id (on anything else the line is
\* skipped: json.loads or .get raised, or the id differs)
IsResponse(parsed, request_id) ==
    /\ parsed.ok
    /\ IsDict(parsed.v)
    /\ DictGet(parsed.v, "id", JNull) = JStr(request_id)

IsResponseLine(line, request_id) == IsResponse(JsonLoads(line), request_id)

RECURSIVE ScanLines(_, _, _)

\* lines 144-149 for line n, parsed being what json.loads made of it
LineScanned(parsed, lines, request_id, n) ==
    IF IsResponse(parsed, request_id)
    THEN [found |-> TRUE, response |-> parsed.v, at |-> n]
    ELSE ScanLines(lines, request_id, n + 1)

\* the scan of the lines from line n on
ScanLines(lines, request_id, n) ==
    IF n > Len(lines) THEN NoResponse
    ELSE LineScanned(JsonLoads(lines[n]), lines, request_id, n)

FindResponseLast(lines, request_id) ==
    LET M == {n \in 1..Len(lines) : IsResponseLine(lines[n], request_id)}
    IN  IF M = {} THEN NoResponse
        ELSE [found |-> TRUE, response |-> JsonLoads(lines[SetMax(M)]).v,
              at |-> SetMax(M)]

FindResponse(lines, request_id) == ScanLines(lines, request_id, 1)

----------------------------------------------------------------------------
(* call_mcp_tool: the payload, lines 160-183 *)

\* lines 161-169: the text handed to json.loads
JsonPart(raw_text_result) ==
    IF Contains(raw_text_result, ": [")
    THEN SliceFrom(raw_text_result, Find(raw_text_result, "[", 1))
    ELSE IF Contains(raw_text_result, ": {")
    THEN SliceFrom(raw_text_result, Find(raw_text_result, "{", 1))
    ELSE raw_text_result

\* monitor.get("status", "").upper() == "ALERT", for a monitor that is a dict
\* with a str status
IsAlertMonitor(monitor) ==
    Upper(DictGet(monitor, "status", JStr("")).v) = "ALERT"

\* the AttributeError line 176 raises on a monitor, "" when it raises none
MonitorFault(monitor) ==
    IF ~IsDict(monitor)
    THEN "'" \o TypeName(monitor) \o "' object has no attribute 'get'"
    ELSE IF ~IsStr(DictGet(monitor, "status", JStr("")))
    THEN "'" \o TypeName(DictGet(monitor, "status", JStr("")))
             \o "' object has no attribute 'upper'"
    ELSE ""

\* line 176: the alert monitors of a list, or the first AttributeError
AlertMonitors(monitors) ==
    LET bad == {n \in 1..Len(monitors) : MonitorFault(monitors[n]) # ""}
    IN  IF bad # {}
        THEN Raise("AttributeError", MonitorFault(monitors[SetMin(bad)]))
        ELSE Ok(JArr(SelectSeq(monitors, IsAlertMonitor)))

\* line 174, third conjunct: "status:alert" in arguments.get("filter", "").lower()
WantsAlerts(arguments) ==
    LET filter == DictGet(arguments, "filter", JStr(""))
    IN  IF IsStr(filter) THEN Ok(JBool(IF Contains(Lower(filter.v), "status:alert")
                                       THEN "true" ELSE "false"))
        ELSE Raise("AttributeError",
                   "'" \o TypeName(filter) \o "' object has no attribute 'lower'")

SlicedTextResult(raw_text_result) == ResultOf(JStr(JsonPart(raw_text_result)))

\* line 183: the result when json.loads raised JSONDecodeError
RawTextResult(raw_text_result) == ResultOf(JStr(raw_text_result))

\* lines 171-183 for what json.loads made of json_part
NormalizeParsed(parsed, raw_text_result, tool_name, arguments) ==
    LET wants  == WantsAlerts(arguments)
        alerts == AlertMonitors(parsed.v.v)
    IN  IF ~parsed.ok THEN RawTextResult(raw_text_result)
        ELSE IF tool_name = JStr("get_monitors") /\ IsList(parsed.v) THEN
            IF ~wants.ok THEN CallFailed(wants.msg)
            ELSE IF wants.v = JBool("true") THEN
                IF alerts.ok THEN ResultOf(alerts.v) ELSE CallFailed(alerts.msg)
            ELSE ResultOf(parsed.v)
        ELSE ResultOf(parsed.v)

\* lines 160-183 for a payload that is a str: the result call_mcp_tool returns
NormalizePayload(raw_text_result, tool_name, arguments) ==
    NormalizeParsed(JsonLoads(JsonPart(raw_text_result)), raw_text_result,
                    tool_name, arguments)

\* lines 162-172 for a payload that is no str: the exception raised
NonTextFault(text) ==
    IF IsList(text) \/ IsDict(text) THEN
        IF \/ IsList(text) /\ \E n \in 1..Len(text.v) :
                                  text.v[n] \in {JStr(": ["), JStr(": {")}
           \/ IsDict(text) /\ (HasKey(text, ": [") \/ HasKey(text, ": {"))
        THEN Raise("AttributeError",
                   "'" \o TypeName(text) \o "' object has no attribute 'find'")
        ELSE Raise("TypeError",
                   "the JSON object must be str, bytes or bytearray, not "
                       \o TypeName(text))
    ELSE Raise("TypeError",
               "argument of type '" \o TypeName(text) \o "' is not iterable")

----------------------------------------------------------------------------
(* call_mcp_tool: from the matched response to the result, lines 154-191 *)

\* the payload of the envelope, and an empty text where the envelope is broken
PayloadOrEmpty(response) ==
    LET result  == Subscript(response, "result")
        content == Subscript(result.v, "content")
        first   == Index0(content.v)
        text    == Subscript(first.v, "text")
    IN  IF result.ok /\ content.ok /\ first.ok /\ text.ok THEN text
        ELSE Ok(JStr(""))

\* line 157: response['result']['content'][0]['text']
PayloadOf(response) ==
    LET result  == Subscript(response, "result")
        content == Subscript(result.v, "content")
        first   == Index0(content.v)
        text    == Subscript(first.v, "text")
    IN  IF ~result.ok THEN result
        ELSE IF ~content.ok THEN content
        ELSE IF ~first.ok THEN first
        ELSE text

\* the handler of line 185
ExtractFailed(msg, response) ==
    ErrorWithResponse("Could not extract content from MCP response: " \o msg,
                      response)

ResultOfResponse(response, tool_name, arguments) ==
    LET payload == PayloadOf(response)
        fault   == NonTextFault(payload.v)
    IN  IF HasKey(response, "result") THEN
            IF ~payload.ok THEN ExtractFailed(payload.msg, response)
            ELSE IF IsStr(payload.v)
                THEN NormalizePayload(payload.v.v, tool_name, arguments)
            ELSE IF fault.exc = "TypeError"
                THEN ExtractFailed(fault.msg, response)
            ELSE CallFailed(fault.msg)
        ELSE IF HasKey(response, "error")
            THEN ErrorOf("MCP error: " \o PyStr(GetKey(response, "error")))
        ELSE ErrorWithResponse("Invalid MCP response format.", response)

\* lines 151-191: the result for what the scan of the lines found
ResultOfScan(found, tool_name, arguments) ==
    IF ~found.found
    THEN ErrorOf("Could not find valid JSON-RPC response in MCP output.")
    ELSE ResultOfResponse(found.response, tool_name, arguments)

\* lines 128-191: what call_mcp_tool returns once communicate has returned
ResultOfExit(returncode, stdout_data, stderr_data, request_id, tool_name, arguments) ==
    IF returncode # 0
    THEN ErrorOf("MCP server process failed with exit code "
                     \o ToString(returncode) \o ": " \o stderr_data)
    ELSE IF Strip(stdout_data) = ""
    THEN ErrorOf("Received empty response from MCP server.")
    ELSE ResultOfScan(FindResponse(SplitLines(Strip(stdout_data)), request_id),
                      tool_name, arguments)

----------------------------------------------------------------------------
(* process_user_input: the alert request, line 207 *)

\* \w of a regular expression, on ASCII text
WordChars == LowerAlphabet \o UpperAlphabet \o "0123456789_"
IsWordChar(c) == c # "" /\ Contains(WordChars, c)

\* \b at the gap before place i of s
WordBoundary(s, i) == IsWordChar(Ch(s, i - 1)) # IsWordChar(Ch(s, i))

AlertVerbs == {"get", "list", "show"}
AlertWords == {"alert", "alerts", "alerting"}

\* re.search(r'(get|list|show).*\b(alert|alerts|alerting)\b', s): a verb, then
\* on the same line a word of AlertWords that stands between word boundaries
MatchesAlertRequest(s) ==
    \E i \in 1..Len(s), verb \in AlertVerbs :
        /\ StartsAt(s, verb, i)
        /\ \E j \in (i + Len(verb))..Len(s), word \in AlertWords :
              /\ StartsAt(s, word, j)
              /\ WordBoundary(s, j)
              /\ WordBoundary(s, j + Len(word))
              /\ ~Contains(SubSeq(s, i + Len(verb), j - 1), "\n")

\* lines 206-209: is_alert_request
IsAlertRequest(user_message) == MatchesAlertRequest(Lower(user_message))

----------------------------------------------------------------------------
(* process_user_input: the tool call in the reply, lines 225-258 *)

NoContent == [found |-> FALSE, content |-> ""]
Content(text) == [found |-> TRUE, content |-> text]

\* The fence of a code block is three grave accents. A TLA+ string cannot hold
\* a grave accent: in the texts of this model a tilde stands for it, and no
\* text of the model holds a tilde of its own.
Fence == "~~~"

\* line 228: re.findall of the pattern fence (?:json)?\s*(.*?)\s* fence with
\* re.DOTALL, its first match: what stands between the first fence (and a
\* json tag) and the next fence, without the whitespace around it
FirstFencedBlock(text) ==
    LET open  == Find(text, Fence, 1)
        tag   == IF StartsAt(text, "json", open + 3) THEN open + 7 ELSE open + 3
        start == FirstInk(text, tag)
        close == Find(text, Fence, start)
    IN  IF open = 0 \/ close = 0 THEN NoContent
        ELSE IF close = start THEN Content("")
        ELSE Content(SubSeq(text, start, LastInk(text, close - 1)))

\* line 234: re.search of a brace, anything, a brace, with re.DOTALL: from the
\* first opening brace to the last closing brace
BraceMatch(text) ==
    LET open  == Find(text, "{", 1)
        close == RFind(text, "}")
    IN  IF open # 0 /\ close > open
        THEN Content(SubSeq(text, open, close)) ELSE NoContent

\* lines 229-238: the first block, or else the braces of the reply
BlockOrBraces(block, ollama_response) ==
    IF block.found THEN block ELSE BraceMatch(ollama_response)

\* lines 228-238: json_content, found FALSE where it is None
JsonContent(ollama_response) ==
    BlockOrBraces(FirstFencedBlock(ollama_response), ollama_response)

\* line 243: re.sub of // with the rest of its line and the line feed; a line
\* feed that ends the text stays, the end of the text matching before it
RECURSIVE StripLineComments(_)
StripLineComments(s) ==
    LET k  == Find(s, "//", 1)
        nl == Find(s, "\n", k + 2)
    IN  IF k = 0 THEN s
        ELSE IF nl = 0 THEN SubSeq(s, 1, k - 1)
        ELSE IF nl = Len(s) THEN SubSeq(s, 1, k - 1) \o "\n"
        ELSE SubSeq(s, 1, k - 1) \o StripLineComments(SliceFrom(s, nl + 1))

\* line 245: re.sub of a block comment, from its opening to the first closing
\* that follows, with re.DOTALL
RECURSIVE StripBlockComments(_)
StripBlockComments(s) ==
    LET k == Find(s, "/*", 1)
        e == Find(s, "*/", k + 2)
    IN  IF k = 0 \/ e = 0 THEN s
        ELSE SubSeq(s, 1, k - 1) \o StripBlockComments(SliceFrom(s, e + 2))

\* lines 243-245: clean_json
CleanJson(json_content) == StripBlockComments(StripLineComments(json_content))

AnyObject(parsed_json) == IsDict(parsed_json)

\* line 248
IsToolCall(parsed_json) == IsDict(parsed_json) /\ HasKey(parsed_json, "tool_name")

AlertGroupStates == JArr(<<JStr("alert")>>)

\* lines 253-258: the tool call after the repair. On arguments that are no
\* dict, line 255 or 256 raises TypeError, which line 259 catches: the tool
\* call stays as it was parsed
RepairArguments(tool_call, is_alert_request) ==
    LET args == DictGet(tool_call, "arguments", JObj(<<>>))
    IN  IF /\ is_alert_request
           /\ DictGet(tool_call, "tool_name", JNull) = JStr("get_monitors")
           /\ IsDict(args)
           /\ ~HasKey(args, "groupStates")
        THEN SetKey(tool_call, "arguments",
                    SetKey(args, "groupStates", AlertGroupStates))
        ELSE tool_call

\* lines 247-258: tool_call for what json.loads made of clean_json, JNull
\* where it stays None
ToolCallParsed(parsed_json, is_alert_request) ==
    IF parsed_json.ok /\ IsToolCall(parsed_json.v)
    THEN RepairArguments(parsed_json.v, is_alert_request)
    ELSE JNull

\* lines 240-258
ToolCallIn(json_content, is_alert_request) ==
    IF json_content.found /\ json_content.content # ""
    THEN ToolCallParsed(JsonLoads(CleanJson(json_content.content)),
                        is_alert_request)
    ELSE JNull

\* lines 225-261: tool_call, JNull where it is None
ToolCallOf(ollama_response, is_alert_request) ==
    ToolCallIn(JsonContent(ollama_response), is_alert_request)

\* line 264: if tool_call
Truthy(tool_call) == IsDict(tool_call) /\ Len(tool_call.v) > 0

\* line 266
ArgumentsOfCall(tool_call) == DictGet(tool_call, "arguments", JObj(<<>>))

NotNone(item) == item[2] # JNull

\* the arguments passed on as they are
UncleanedArgs(arguments) ==
    IF IsDict(arguments) THEN Ok(arguments)
    ELSE Raise("AttributeError",
               "'" \o TypeName(arguments) \o "' object has no attribute 'items'")

\* line 269: cleaned_args, or the AttributeError of arguments that are no dict
CleanedArgs(arguments) ==
    IF IsDict(arguments) THEN Ok(JObj(SelectSeq(arguments.v, NotNone)))
    ELSE Raise("AttributeError",
               "'" \o TypeName(arguments) \o "' object has no attribute 'items'")

\* the messages of the conversation
Message(role, content) == [role |-> role, content |-> content]

\* lines 58-88, the first line of the text
SYSTEM_PROMPT ==
    "You are a Datadog SRE assistant that helps users retrieve information from Datadog."

----------------------------------------------------------------------------
(* Bounds and the inputs of the environment *)

MaxLines == 3       \* output lines of one tool process
MaxMonitors == 2    \* monitors in one payload
MaxClock == 3       \* clock readings, in ms
MaxTurns == 2       \* lines main reads from the console
FirstClock == 1     \* the clock reading the program starts at

ExitCodes == {0, 1}
Stderrs == {"", "DD_API_KEY is not set", "node:\rDD_API_KEY is not set\r\n"}
PayloadStderrs == {"warning: slow query"}

SeqsUpTo(S, n) == UNION {[1..k -> S] : k \in 0..n}

RECURSIVE JoinLines(_)
\* every line ended by a line feed
JoinLines(lines) ==
    IF lines = <<>> THEN "" ELSE Head(lines) \o "\n" \o JoinLines(Tail(lines))

\* a response line of the tool process: {"jsonrpc": "2.0", <members>}
ResponseLine(members) ==
    JsonDumps(JObj(<< <<"jsonrpc", JStr("2.0")>> >> \o members))

IdOf(id) == <<"id", JStr(id)>>
ErrorMember == <<"error", JStr("rate limited")>>
\* "result": {"content": [{"type": "text", "text": text}]}
TextResult(text) ==
    <<"result", JObj(<< <<"content",
        JArr(<<JObj(<< <<"type", JStr("text")>>, <<"text", text>> >>)>>)>> >>)>>

\* the lines a tool process may write while serving request_id
OutputLines(request_id) ==
    { "Datadog MCP server running on stdio",
      "[1]",
      ResponseLine(<< <<"method", JStr("notifications/message")>> >>),
      ResponseLine(<<IdOf("req-0"), TextResult(JStr("[0]"))>>),
      ResponseLine(<<IdOf(request_id), TextResult(JStr("[1]"))>>),
      ResponseLine(<<IdOf(request_id), ErrorMember>>),
      ResponseLine(<<IdOf(request_id), TextResult(JStr("[2]")), ErrorMember>>) }

\* the request id of a call made at the first clock reading
FirstRequestId == RequestId(FirstClock)

\* what the tool process of that call may have written when it exits: up to
\* MaxLines lines
StreamOutputs ==
    {JoinLines(ls) : ls \in SeqsUpTo(OutputLines(FirstRequestId), MaxLines)}

\* monitors as the Datadog server lists them
MonitorEntries ==
    { JObj(<< <<"status", JStr("ALERT")>> >>),
      JObj(<< <<"status", JStr("Alert")>>, <<"tags", JArr(<<JStr("a")>>)>> >>),
      JObj(<< <<"status", JStr("OK")>> >>),
      JObj(<< <<"name", JStr("cpu")>> >>),
      JObj(<< <<"status", JNull>> >>) }

MonitorPayloads ==
    {prefix \o JsonDumps(JArr(ms)) :
        prefix \in {"", "Monitors: "}, ms \in SeqsUpTo(MonitorEntries, MaxMonitors)}

OtherPayloads ==
    { "", "No monitors found", "5", "null",
      "{\"count\": 2}",
      "{\"monitors\": [{\"status\": \"ALERT\"}]}",
      "{\"page\": {\"size\": 1}}",
      "{\"a\": [1], \"b\": {\"c\": 2}}",
      "\"see: [docs]\"",
      "Dashboard: {\"id\": 1}",
      "Incidents: []",
      "Monitors: [oops",
      "Found: {\"a\": 1} in total",
      "Result: [1] and [2]",
      "x[0]: [1]",
      "[1, 2",
      "[1]\f",
      "\"a\fb\"" }

PayloadTexts == MonitorPayloads \cup OtherPayloads

\* results that leave the envelope result.content[0].text
BrokenResults ==
    { <<"result", JNull>>,
      <<"result", JStr("done")>>,
      <<"result", JArr(<<>>)>>,
      <<"result", JObj(<<>>)>>,
      <<"result", JObj(<< <<"content", JArr(<<>>)>> >>)>>,
      <<"result", JObj(<< <<"content", JStr("[1]")>> >>)>>,
      <<"result", JObj(<< <<"content", JObj(<<>>)>> >>)>>,
      <<"result", JObj(<< <<"content", JNum("1")>> >>)>>,
      <<"result", JObj(<< <<"content", JArr(<<JObj(<<>>)>>)>> >>)>>,
      <<"result", JObj(<< <<"content", JArr(<<JStr("[1]")>>)>> >>)>>,
      TextResult(JNum("5")),
      TextResult(JNull),
      TextResult(JArr(<<JStr("[1]")>>)),
      TextResult(JArr(<<JStr(": [")>>)),
      TextResult(JObj(<< <<"a", JNum("1")>> >>)) }

\* one matching response line, carrying a payload or a broken result; and a
\* matching line between form feeds, which strip() takes off the ends of the
\* output and which json.loads refuses at the head of a line; and lines the
\* process ended by a carriage return, alone or before the line feed
PayloadOutputs ==
    {JoinLines(<<ResponseLine(<<IdOf(FirstRequestId), TextResult(JStr(text))>>)>>) :
        text \in PayloadTexts}
    \cup {JoinLines(<<ResponseLine(<<IdOf(FirstRequestId), r>>)>>) :
             r \in BrokenResults}
    \cup {JoinLines(<<ResponseLine(<<IdOf(FirstRequestId)>>)>>),
          JoinLines(<<ResponseLine(<<IdOf(FirstRequestId), ErrorMember>>)>>)}
    \cup { "\f" \o ResponseLine(<<IdOf(FirstRequestId), TextResult(JStr("[1]"))>>)
                 \o "\f\n",
            "Datadog MCP server running on stdio\n\f"
                 \o ResponseLine(<<IdOf(FirstRequestId), TextResult(JStr("[1]"))>>)
                 \o "\n",
            "\f\n",
            "Datadog MCP server running on stdio\r"
                 \o ResponseLine(<<IdOf(FirstRequestId), TextResult(JStr("[1]"))>>)
                 \o "\r\n",
            "[1]\r\n\r"
                 \o ResponseLine(<<IdOf(FirstRequestId), ErrorMember>>),
            "\r" }

ArgumentsOf(texts) == {JsonLoads(a).v : a \in texts}

StreamTools == {JStr("get_monitors")}
StreamArguments == ArgumentsOf({"{}"})

PayloadTools == {JStr("get_monitors"), JStr("list_incidents")}
PayloadArguments ==
    ArgumentsOf({ "null",
                  "{}",
                  "{\"filter\": \"status:alert\"}",
                  "{\"filter\": \"env:prod Status:ALERT\"}",
                  "{\"filter\": \"status:ok\"}",
                  "{\"filter\": [\"status:alert\"]}" })

\* what the user types at the prompt
TurnMessages ==
    { "get alert monitors",
      "Show me the ALERTING monitors",
      "list monitors",
      "alerts: get the dashboards",
      "get alerted hosts",
      "target alert" }

ExitInputs == {"exit", "QUIT"}

\* what the language model replies to the user's message
TurnReplies ==
    { "There are 2 monitors.",
      "~~~json\n{\"tool_name\": \"get_monitors\", \"arguments\": {\"name\": \"cpu\"}}\n~~~",
      "{\"tool_name\": \"get_monitors\", \"arguments\": {}} // trailing",
      "I call:\n~~~\n{\"tool_name\": \"get_monitors\", \"arguments\": {\"groupStates\": [\"warn\"]}}\n~~~\nwith {x}",
      "{\"tool_name\": \"get_monitors\"}",
      "{\"tool_name\": \"list_incidents\", \"arguments\": {\"filter\": \"status:alert\", \"pagination\": null}}",
      "{\"tool_name\": \"get_monitors\", /* all */ \"arguments\": {\"name\": \"cpu\", \"groupStates\": null}}",
      "{\"answer\": 42}",
      "Use {\"tool_name\": \"get_monitors\"} or {\"tool_name\": \"list_dashboards\"}",
      "~~~json\n[{\"tool_name\": \"get_monitors\"}]\n~~~",
      "{\"tool_name\": \"get_monitors\", \"arguments\": {\"name\": \"http://cpu\"}}",
      "{\"tool_name\": \"get_monitors\", \"arguments\": null}",
      "~~~ ~~~ {\"tool_name\": \"get_monitors\"}",
      "~~~json {\"tool_name\": \"list_dashboards\", \"arguments\": {\"tags\": [\"a\"]}}",
      "{\"tool_name\": \"get_monitors\" \"arguments\": {}}",
      "~~~json\f{\"tool_name\": \"list_dashboards\"}\f~~~",
      "{\f\"tool_name\": \"get_monitors\"}" }

\* what the language model replies to the tool result
FinalReplies == {"Two monitors are in alert."}

\* the session: what the user types, what the model replies, and what the
\* tool process serving a request may have written when it exits
SessionInputs == {"get alert monitors", "list incidents", "exit"}

SessionReplies ==
    { "There are 2 monitors.",
      "{\"tool_name\": \"get_monitors\", \"arguments\": {\"name\": null}}",
      "{\"tool_name\": \"list_incidents\", \"arguments\": null}" }

RequestIds == {RequestId(ms) : ms \in FirstClock..MaxClock}

SessionOutputs ==
    [id \in RequestIds |->
        {JoinLines(<<ResponseLine(<<IdOf(id), TextResult(JStr("[]"))>>)>>)}]

\* what the tool process of a turn may have written when it exits
TurnOutputs ==
    { "",
      JoinLines(<<ResponseLine(<<IdOf(FirstRequestId),
                                 TextResult(JStr("[{\"status\": \"ALERT\"}]"))>>)>>) }

----------------------------------------------------------------------------
(* State *)

VARIABLES
    pc,            \* where the program stands
    now,           \* the last reading of time.time(), in ms
    tool_name,     \* call_mcp_tool's parameters
    arguments,
    request_id,
    request_ids,   \* the request ids generated since the program started
    request_json,  \* the line written to the standard input of the process
    proc,          \* the process of the last call: "none", "running", "exited"
    elapsed,       \* seconds communicate has waited for a running process
    returncode,
    stdout_data,
    stderr_data,   \* the text captured from the error stream of the process
    timed_out,     \* whether communicate raised TimeoutExpired in the last call
    tool_result,   \* what call_mcp_tool returned
    spawned,       \* processes the call has spawned
    leaked,        \* processes of earlier calls that were left running
    turns,         \* lines main has read from the console
    user_message,  \* process_user_input's parameter
    is_alert_request,
    chat_history,  \* main's list, which process_user_input appends to
    messages,      \* what ollama.chat is sent
    ollama_response,  \* the model's reply as a JSON string, JNull before it
    tool_call,     \* the tool call of the reply, JNull for None
    chats,         \* calls of ollama.chat in the turn
    calls,         \* calls of call_mcp_tool in the turn
    outcome,       \* of process_user_input: "none", "running", "returned", "raised"
    answer,        \* the text it returned, or the text of the exception it raised
    errors         \* the error messages main has printed (line 313)

mcpVars == <<tool_name, arguments, request_id, request_ids, request_json, proc, elapsed,
             returncode, stdout_data, stderr_data, timed_out, tool_result,
             spawned, leaked>>
turnVars == <<turns, user_message, is_alert_request, chat_history, messages,
              ollama_response, tool_call, chats, calls, outcome, answer, errors>>
vars == <<pc, now, mcpVars, turnVars>>

NoResult == JObj(<<>>)

\* call_mcp_tool(tool, args) has just been entered
CallEntered(tool, args) ==
    /\ pc = "call"
    /\ tool_name = tool
    /\ arguments = args
    /\ request_id = ""
    /\ request_json = ""
    /\ elapsed = 0
    /\ returncode = 0
    /\ stdout_data = ""
    /\ stderr_data = ""
    /\ timed_out = FALSE
    /\ tool_result = NoResult
    /\ spawned = 0

\* no turn of the conversation has begun
NoTurn ==
    /\ turns = 0
    /\ user_message = ""
    /\ is_alert_request = FALSE
    /\ chat_history = <<>>
    /\ messages = <<>>
    /\ ollama_response = JNull
    /\ tool_call = JNull
    /\ chats = 0
    /\ calls = 0
    /\ outcome = "none"
    /\ answer = ""
    /\ errors = 0

----------------------------------------------------------------------------
(* call_mcp_tool *)

\* time.time() read again: the clock has not gone back, and may not have moved
ClockReadings == {t \in {now, now + 1} : t <= MaxClock}
\* time.time() read in the millisecond of the last reading
SameReading == {now}

\* lines 92-113: the request of a call entered at clock reading ms
Prepare(ms) ==
    /\ now' = ms
    /\ arguments' = DefaultArguments(tool_name, arguments)
    /\ request_id' = RequestId(ms)
    /\ request_ids' = Append(request_ids, RequestId(ms))
    /\ request_json' =
           JsonDumps(McpRequest(RequestId(ms), tool_name,
                                DefaultArguments(tool_name, arguments))) \o "\n"

\* lines 92-124: Popen starts the process
McpSpawn(readings) ==
    /\ pc = "call"
    /\ \E ms \in readings : Prepare(ms)
    /\ proc' = "running"
    /\ leaked' = leaked + (IF proc = "running" THEN 1 ELSE 0)
    /\ spawned' = spawned + 1
    /\ elapsed' = 0
    /\ pc' = "communicate"
    /\ UNCHANGED <<tool_name, returncode, stdout_data, stderr_data, timed_out,
                   tool_result>>
    /\ UNCHANGED turnVars

\* lines 92-116 and 196-198: Popen raises (node is not installed)
McpSpawnFails(readings) ==
    /\ pc = "call"
    /\ \E ms \in readings : Prepare(ms)
    /\ proc' = "none"
    /\ leaked' = leaked + (IF proc = "running" THEN 1 ELSE 0)
    /\ tool_result' = CallFailed("[Errno 2] No such file or directory: 'node'")
    /\ pc' = "returned"
    /\ UNCHANGED <<tool_name, elapsed, returncode, stdout_data, stderr_data,
                   timed_out, spawned>>
    /\ UNCHANGED turnVars

\* line 126: the timeout of communicate has run out after e seconds
TimeoutNever(e) == FALSE
TimedOut(e) == e >= CommunicateTimeout

\* a second passes while communicate waits
Tick ==
    /\ pc = "communicate"
    /\ proc = "running"
    /\ ~TimedOut(elapsed)
    /\ elapsed <= CommunicateTimeout
    /\ elapsed' = elapsed + 1
    /\ UNCHANGED <<pc, now, tool_name, arguments, request_id, request_ids,
                   request_json, proc, returncode, stdout_data, stderr_data, timed_out,
                   tool_result, spawned, leaked>>
    /\ UNCHANGED turnVars

\* the process exits before the timeout, having written out and err, which
\* communicate reads as text
ProcessExits(outputs, errs) ==
    /\ pc = "communicate"
    /\ proc = "running"
    /\ ~TimedOut(elapsed)
    /\ \E out \in outputs : stdout_data' = UniversalNewlines(out)
    /\ \E err \in errs : stderr_data' = UniversalNewlines(err)
    /\ \E rc \in ExitCodes : returncode' = rc
    /\ proc' = "exited"
    /\ elapsed' = 0
    /\ UNCHANGED <<pc, now, tool_name, arguments, request_id, request_ids,
                   request_json, timed_out, tool_result, spawned, leaked>>
    /\ UNCHANGED turnVars

\* lines 126-194: communicate returns the streams of the exited process
McpCommunicateReturns ==
    /\ pc = "communicate"
    /\ proc = "exited"
    /\ tool_result' = ResultOfExit(returncode, stdout_data, stderr_data,
                                   request_id, tool_name, arguments)
    /\ pc' = "returned"
    /\ UNCHANGED <<now, tool_name, arguments, request_id, request_ids,
                   request_json, proc,
                   elapsed, returncode, stdout_data, stderr_data, timed_out,
                   spawned, leaked>>
    /\ UNCHANGED turnVars

\* lines 126 and 196-198: communicate raises TimeoutExpired; the process,
\* which had written err to its error stream, is neither killed nor waited for
McpTimeoutExpired(errs) ==
    /\ pc = "communicate"
    /\ proc = "running"
    /\ TimedOut(elapsed)
    /\ \E err \in errs : stderr_data' = err
    /\ timed_out' = TRUE
    /\ tool_result' = CallFailed(TimeoutExpiredText)
    /\ pc' = "returned"
    /\ UNCHANGED <<now, tool_name, arguments, request_id, request_ids,
                   request_json, proc,
                   elapsed, returncode, stdout_data, spawned, leaked>>
    /\ UNCHANGED turnVars

----------------------------------------------------------------------------
(* main and process_user_input *)

\* line 305
IsExit(user_input) == Lower(user_input) \in {"exit", "quit"}

\* str(e) of the exception ollama.chat raises when the model cannot be reached
OllamaFault == "Failed to connect to Ollama."

\* main reads a message and process_user_input starts from an empty history,
\* as lines 202-203 do for a call without one
MainReadInputFreshHistory(inputs, limit) ==
    /\ pc = "input"
    /\ turns < limit
    /\ \E msg \in inputs :
          /\ ~IsExit(msg)
          /\ user_message' = msg
          /\ is_alert_request' = IsAlertRequest(msg)
          /\ messages' = <<Message("system", SYSTEM_PROMPT), Message("user", msg)>>
    /\ chat_history' = <<>>
    /\ turns' = turns + 1
    /\ ollama_response' = JNull
    /\ tool_call' = JNull
    /\ chats' = 1
    /\ calls' = 0
    /\ outcome' = "running"
    /\ answer' = ""
    /\ pc' = "chat"
    /\ UNCHANGED <<now, mcpVars, errors>>

\* lines 304-305 and 200-220: main reads a message and process_user_input
\* takes it to the first call of ollama.chat; limit bounds the lines read
MainReadInput(inputs, limit) ==
    /\ pc = "input"
    /\ turns < limit
    /\ \E msg \in inputs :
          /\ ~IsExit(msg)
          /\ user_message' = msg
          /\ is_alert_request' = IsAlertRequest(msg)
          /\ messages' = <<Message("system", SYSTEM_PROMPT)>> \o chat_history
                             \o <<Message("user", msg)>>
    /\ turns' = turns + 1
    /\ ollama_response' = JNull
    /\ tool_call' = JNull
    /\ chats' = 1
    /\ calls' = 0
    /\ outcome' = "running"
    /\ answer' = ""
    /\ pc' = "chat"
    /\ UNCHANGED <<now, mcpVars, chat_history, errors>>

\* lines 304-307: main reads exit or quit and leaves the loop
MainReadExit(inputs, limit) ==
    /\ pc = "input"
    /\ turns < limit
    /\ \E msg \in inputs : IsExit(msg)
    /\ turns' = turns + 1
    /\ pc' = "done"
    /\ UNCHANGED <<now, mcpVars, user_message, is_alert_request, chat_history,
                   messages, ollama_response, tool_call, chats, calls, outcome,
                   answer, errors>>

\* line 304: the console is at its end and input() raises EOFError; the call
\* stands outside the try of lines 309-313, and main ends
MainInputRaises ==
    /\ pc = "input"
    /\ pc' = "done"
    /\ UNCHANGED <<now, mcpVars, turnVars>>

\* line 220: ollama.chat raises; the exception leaves process_user_input and
\* line 312 catches it
OllamaFails ==
    /\ pc = "chat"
    /\ outcome' = "raised"
    /\ answer' = OllamaFault
    /\ errors' = errors + 1
    /\ pc' = "input"
    /\ UNCHANGED <<now, mcpVars, turns, user_message, is_alert_request,
                   chat_history, messages, ollama_response, tool_call, chats,
                   calls>>

\* lines 220-261 and 289-292: the reply holds no tool call and is the answer
PuiNoToolCall(replies) ==
    /\ pc = "chat"
    /\ \E reply \in replies :
          /\ tool_call' = ToolCallOf(reply, is_alert_request)
          /\ ~Truthy(tool_call')
          /\ ollama_response' = JStr(reply)
          /\ chat_history' = Append(chat_history, Message("assistant", reply))
          /\ answer' = reply
    /\ outcome' = "returned"
    /\ pc' = "input"
    /\ UNCHANGED <<now, mcpVars, turns, user_message, is_alert_request, messages,
                   chats, calls, errors>>

\* lines 220-272: the reply holds a tool call, and call_mcp_tool is entered
\* with its tool name and its cleaned arguments
PuiDispatch(replies) ==
    /\ pc = "chat"
    /\ \E reply \in replies :
          /\ tool_call' = ToolCallOf(reply, is_alert_request)
          /\ Truthy(tool_call')
          /\ CleanedArgs(ArgumentsOfCall(tool_call')).ok
          /\ ollama_response' = JStr(reply)
          /\ tool_name' = DictGet(tool_call', "tool_name", JNull)
          /\ arguments' = CleanedArgs(ArgumentsOfCall(tool_call')).v
    /\ calls' = calls + 1
    /\ request_id' = ""
    /\ request_json' = ""
    /\ elapsed' = 0
    /\ returncode' = 0
    /\ stdout_data' = ""
    /\ stderr_data' = ""
    /\ timed_out' = FALSE
    /\ tool_result' = NoResult
    /\ spawned' = 0
    /\ pc' = "call"
    /\ UNCHANGED <<now, proc, leaked, request_ids, turns, user_message,
                   is_alert_request, chat_history, messages, chats, outcome,
                   answer, errors>>

\* lines 220-269: the reply holds a tool call whose arguments are no dict;
\* line 269 raises AttributeError, which leaves process_user_input
PuiDispatchFails(replies) ==
    /\ pc = "chat"
    /\ \E reply \in replies :
          /\ tool_call' = ToolCallOf(reply, is_alert_request)
          /\ Truthy(tool_call')
          /\ ~CleanedArgs(ArgumentsOfCall(tool_call')).ok
          /\ ollama_response' = JStr(reply)
          /\ answer' = CleanedArgs(ArgumentsOfCall(tool_call')).msg
    /\ outcome' = "raised"
    /\ errors' = errors + 1
    /\ pc' = "input"
    /\ UNCHANGED <<now, mcpVars, turns, user_message, is_alert_request,
                   chat_history, messages, chats, calls>>

\* lines 272-284: call_mcp_tool has returned; the reply and the tool result
\* go to the history and to the model
PuiToolReturned ==
    /\ pc = "returned"
    /\ outcome = "running"
    /\ chat_history' = chat_history \o
           <<Message("assistant", ollama_response.v),
             Message("tool", JsonDumps(tool_result))>>
    /\ messages' = messages \o
           <<Message("assistant", ollama_response.v),
             Message("tool", JsonDumps(tool_result))>>
    /\ chats' = chats + 1
    /\ pc' = "final"
    /\ UNCHANGED <<now, mcpVars, turns, user_message, is_alert_request,
                   ollama_response, tool_call, calls, outcome, answer, errors>>

\* lines 284-288: the model's final reply is the answer
OllamaFinalReplies(replies) ==
    /\ pc = "final"
    /\ \E final_content \in replies :
          /\ chat_history' = Append(chat_history,
                                    Message("assistant", final_content))
          /\ answer' = final_content
    /\ outcome' = "returned"
    /\ pc' = "input"
    /\ UNCHANGED <<now, mcpVars, turns, user_message, is_alert_request, messages,
                   ollama_response, tool_call, chats, calls, errors>>

\* line 284: ollama.chat raises
OllamaFinalFails ==
    /\ pc = "final"
    /\ outcome' = "raised"
    /\ answer' = OllamaFault
    /\ errors' = errors + 1
    /\ pc' = "input"
    /\ UNCHANGED <<now, mcpVars, turns, user_message, is_alert_request,
                   chat_history, messages, ollama_response, tool_call, chats,
                   calls>>

\* line 301: main before its first read of the console
MainInit ==
    /\ pc = "input"
    /\ now = FirstClock
    /\ proc = "none"
    /\ leaked = 0
    /\ request_ids = <<>>
    /\ NoTurn
    /\ tool_name = JNull
    /\ arguments = JObj(<<>>)
    /\ request_id = ""
    /\ request_json = ""
    /\ elapsed = 0
    /\ returncode = 0
    /\ stdout_data = ""
    /\ stderr_data = ""
    /\ timed_out = FALSE
    /\ tool_result = NoResult
    /\ spawned = 0

----------------------------------------------------------------------------
(* call_mcp_tool alone, on the streams of the process *)

StreamInit ==
    /\ now = FirstClock
    /\ NoTurn
    /\ proc = "none"
    /\ leaked = 0
    /\ request_ids = <<>>
    /\ \E tool \in StreamTools, args \in StreamArguments : CallEntered(tool, args)

StreamNext ==
    \/ McpSpawn(SameReading)
    \/ McpSpawnFails(SameReading)
    \/ Tick
    \/ ProcessExits(StreamOutputs, Stderrs)
    \/ McpCommunicateReturns
    \/ McpTimeoutExpired(Stderrs)

StreamSpec == StreamInit /\ [][StreamNext]_vars

(* call_mcp_tool alone, on the payloads of a matching response *)

PayloadInit ==
    /\ now = FirstClock
    /\ NoTurn
    /\ proc = "none"
    /\ leaked = 0
    /\ request_ids = <<>>
    /\ \E tool \in PayloadTools, args \in PayloadArguments : CallEntered(tool, args)

PayloadNext ==
    \/ McpSpawn(SameReading)
    \/ McpSpawnFails(SameReading)
    \/ Tick
    \/ ProcessExits(PayloadOutputs, PayloadStderrs)
    \/ McpCommunicateReturns
    \/ McpTimeoutExpired(PayloadStderrs)

PayloadSpec == PayloadInit /\ [][PayloadNext]_vars

(* one turn of the conversation, on the replies of the language model *)

TurnNext ==
    \/ MainReadInput(TurnMessages \cup ExitInputs, 1)
    \/ MainReadExit(TurnMessages \cup ExitInputs, 1)
    \/ MainInputRaises
    \/ OllamaFails
    \/ PuiNoToolCall(TurnReplies)
    \/ PuiDispatch(TurnReplies)
    \/ PuiDispatchFails(TurnReplies)
    \/ McpSpawn(SameReading)
    \/ McpSpawnFails(SameReading)
    \/ Tick
    \/ ProcessExits(TurnOutputs, PayloadStderrs)
    \/ McpCommunicateReturns
    \/ McpTimeoutExpired(PayloadStderrs)
    \/ PuiToolReturned
    \/ OllamaFinalReplies(FinalReplies)
    \/ OllamaFinalFails

TurnSpec == MainInit /\ [][TurnNext]_vars

(* the session: main with its loop *)

Next ==
    \/ MainReadInput(SessionInputs, MaxTurns)
    \/ MainReadExit(SessionInputs, MaxTurns)
    \/ MainInputRaises
    \/ OllamaFails
    \/ PuiNoToolCall(SessionReplies)
    \/ PuiDispatch(SessionReplies)
    \/ PuiDispatchFails(SessionReplies)
    \/ McpSpawn(ClockReadings)
    \/ McpSpawnFails(ClockReadings)
    \/ Tick
    \/ ProcessExits(SessionOutputs[request_id], PayloadStderrs)
    \/ McpCommunicateReturns
    \/ McpTimeoutExpired(PayloadStderrs)
    \/ PuiToolReturned
    \/ OllamaFinalReplies(FinalReplies)
    \/ OllamaFinalFails

Spec == MainInit /\ [][Next]_vars

----------------------------------------------------------------------------
(* The claims about call_mcp_tool *)

\* call_mcp_tool has returned after the process exited with code 0 and some
\* output, so that the lines of the output were scanned
OutputScanned ==
    /\ pc = "returned"
    /\ proc = "exited"
    /\ returncode = 0
    /\ Strip(stdout_data) # ""

\* whether what a line decodes to is an object whose id is the request id
IsMatch(decoded) ==
    /\ decoded.ok
    /\ IsDict(decoded.v)
    /\ HasKey(decoded.v, "id")
    /\ GetKey(decoded.v, "id") = JStr(request_id)

\* the places of the matching lines
MatchingLines(lines) == {n \in 1..Len(lines) : IsMatch(JsonLoads(lines[n]))}

NoMatch == [found |-> FALSE, response |-> JNull, lines |-> <<>>, at |-> {}]

\* the object of the first of the matching lines, whose places are M
MatchAmong(lines, M) ==
    IF M = {} THEN [found |-> FALSE, response |-> JNull, lines |-> lines, at |-> M]
    ELSE [found |-> TRUE, response |-> JsonLoads(lines[SetMin(M)]).v,
          lines |-> lines, at |-> M]

FirstMatch(lines) == MatchAmong(lines, MatchingLines(lines))

\* the lines of the output as line 142 splits them, and the first match among
\* them, once the output was scanned
Matched ==
    IF OutputScanned THEN FirstMatch(SplitLines(Strip(stdout_data))) ELSE NoMatch

NoText == [has |-> FALSE, text |-> ""]

TextIn(payload) ==
    IF payload.ok /\ IsStr(payload.v)
    THEN [has |-> TRUE, text |-> payload.v.v] ELSE NoText

\* the payload text of a match, when its response holds one
TextOf(m) ==
    IF m.found /\ HasKey(m.response, "result")
    THEN TextIn(PayloadOf(m.response)) ELSE NoText

\* the payload text of the matched response of the state
PayloadText == TextOf(Matched)

FirstMatchIsUsed(m) ==
    OutputScanned =>
        IF ~m.found
        THEN /\ IsError(tool_result)
             /\ ~IsResult(tool_result)
             /\ ErrorText(tool_result) =
                    "Could not find valid JSON-RPC response in MCP output."
        ELSE tool_result = ResultOfResponse(m.response, tool_name, arguments)

\* C1: the response used is the first line that parses as JSON and whose id
\* equals the request id, whatever lines stand before or after it; when no
\* line matches, the call returns an error result and no payload.
C1_FirstMatchingLineIsUsed == FirstMatchIsUsed(Matched)

MatchBetweenOtherLines(m) ==
    /\ Len(m.lines) = 3
    /\ m.at = {2}
    /\ ~JsonLoads(m.lines[1]).ok
    /\ JsonLoads(m.lines[3]).ok
    /\ tool_result = ResultOf(JArr(<<JNum("1")>>))

\* C1 witness: the only match stands on the second of three lines, after a
\* line that is no JSON and before a JSON line of another id; its payload is
\* the result.
C1_Witness == OutputScanned /\ MatchBetweenOtherLines(Matched)

ErrorFieldGivesErrorResult(m) ==
    (m.found /\ HasKey(m.response, "error")) =>
        IsError(tool_result) /\ ~IsResult(tool_result)

\* C2: for every matched response object that holds an error field, whatever
\* else it holds, call_mcp_tool returns an error result and no success result.
C2_ErrorFieldGivesErrorResult == ErrorFieldGivesErrorResult(Matched)

DecodedWhole(p, whole) ==
    (/\ p.has
     /\ whole.ok
     /\ ~(tool_name = JStr("get_monitors") /\ IsList(whole.v)))
        => tool_result = ResultOf(whole.v)

ValidJsonIsDecodedWhole(p) == DecodedWhole(p, JsonLoads(p.text))

\* C3: the whole payload text is parsed first, so that for every payload text
\* that is valid JSON the result is the decoded value of the whole text (the
\* monitor lists that the alert filter may shorten set aside).
C3_ValidJsonIsDecodedWhole == ValidJsonIsDecodedWhole(PayloadText)

\* whether a payload text decodes neither as it is nor after the re-slice
Undecodable(p) ==
    /\ p.has
    /\ ~JsonLoads(JsonPart(p.text)).ok
    /\ ~JsonLoads(p.text).ok

UndecodableIsReturnedRaw(p) ==
    Undecodable(p) =>
        /\ tool_result = ResultOf(JStr(p.text))
        /\ ~IsError(tool_result)

\* C4: when the payload text decodes neither as it is nor after the re-slice,
\* the call returns a success result whose value is the payload text as it
\* was, and no error.
C4_UndecodablePayloadIsReturnedRaw == UndecodableIsReturnedRaw(PayloadText)

SlicedAndReturnedRaw(p) ==
    /\ Undecodable(p)
    /\ JsonPart(p.text) # p.text
    /\ tool_result = ResultOf(JStr(p.text))

\* C4 witness: a payload that the heuristic re-slices and that still does not
\* decode has come back as it was.
C4_Witness == SlicedAndReturnedRaw(PayloadText)

\* whether the arguments carry a filter that holds the alert-status marker
HasAlertFilter(args) ==
    /\ HasKey(args, "filter")
    /\ IsStr(GetKey(args, "filter"))
    /\ Contains(Lower(GetKey(args, "filter").v), "status:alert")

\* whether the status of an entry equals the alert marker, whatever the case
StatusIsAlert(entry) ==
    /\ IsDict(entry)
    /\ HasKey(entry, "status")
    /\ IsStr(GetKey(entry, "status"))
    /\ Lower(GetKey(entry, "status").v) = "alert"

FilteredWhenAsked(p, decoded) ==
    (p.has /\ decoded.ok) =>
        tool_result =
            IF /\ tool_name = JStr("get_monitors")
               /\ IsList(decoded.v)
               /\ HasAlertFilter(arguments)
            THEN ResultOf(JArr(SelectSeq(decoded.v.v, StatusIsAlert)))
            ELSE ResultOf(decoded.v)

AlertFilterGivesSubList(p) == FilteredWhenAsked(p, JsonLoads(JsonPart(p.text)))

\* C5: for get_monitors and a payload that decodes to a list, the result is
\* the sub-list of the entries whose status is the alert marker if the
\* arguments carry an alert filter, and the whole list otherwise; for another
\* tool or another value nothing is filtered.
C5_AlertFilterGivesSubList == AlertFilterGivesSubList(PayloadText)

\* C8: a call whose process does not exit within the 15 seconds returns an
\* error result. communicate never waits longer than the timeout; while it
\* waits for a running process, the clock can tick or the timeout can expire,
\* and at the timeout the only step is the return of the error; the call that
\* timed out has returned an error result and has spawned one process only.
C8_TimeoutReturnsError ==
    /\ pc = "communicate" =>
          /\ elapsed <= CommunicateTimeout
          /\ proc \in {"running", "exited"}
          /\ proc = "running" => ENABLED (Tick \/ McpTimeoutExpired(Stderrs))
    /\ (pc = "communicate" /\ proc = "running" /\ elapsed = CommunicateTimeout) =>
          /\ ~ENABLED Tick
          /\ ENABLED McpTimeoutExpired(Stderrs)
    /\ timed_out =>
          /\ pc = "returned"
          /\ IsError(tool_result)
          /\ ~IsResult(tool_result)
          /\ spawned = 1

\* C8 witness: the process was still running after 15 seconds and the call
\* has returned an error.
C8_Witness ==
    /\ pc = "returned"
    /\ timed_out
    /\ elapsed = CommunicateTimeout
    /\ proc = "running"
    /\ IsError(tool_result)

\* C9: when a call that spawned a process returns, it has spawned exactly one
\* and that process has terminated; none is left running.
C9_ProcessTerminatedOnReturn ==
    (pc = "returned" /\ spawned > 0) =>
        /\ spawned = 1
        /\ proc = "exited"
        /\ leaked = 0

\* C10: on a timeout and on a non-zero exit the error result carries the exit
\* code of the process and the text of its error stream, whatever the output.
C10_ErrorCarriesExitCodeAndStderr ==
    (pc = "returned" /\ spawned > 0 /\ (timed_out \/ returncode # 0)) =>
        /\ IsError(tool_result)
        /\ ~IsResult(tool_result)
        /\ Contains(ErrorText(tool_result), "exit code " \o ToString(returncode))
        /\ Contains(ErrorText(tool_result), stderr_data)

----------------------------------------------------------------------------
(* The claims about process_user_input *)

NotDecoded == [ok |-> FALSE, v |-> JNull]

\* what the candidate text of a reply decodes to once its comments are gone
DecodedCandidate(json_content) ==
    IF json_content.found THEN JsonLoads(CleanJson(json_content.content))
    ELSE NotDecoded

\* what the model wrote in the reply of the turn, once it has replied
Written ==
    IF ollama_response = JNull THEN NotDecoded
    ELSE DecodedCandidate(JsonContent(ollama_response.v))

\* whether the candidate decoded to an object that holds tool_name
IsInvocation(d) == d.ok /\ IsDict(d.v) /\ HasKey(d.v, "tool_name")

\* the arguments of an invocation, none when it holds no arguments
ArgumentsWritten(d) == DictGet(d.v, "arguments", JObj(<<>>))

\* the entries of the arguments the model wrote: none when it wrote null
EntriesWritten(d) ==
    IF IsDict(ArgumentsWritten(d)) THEN ArgumentsWritten(d).v ELSE <<>>

\* whether the repair is due: an alert-state query, the monitor tool, and no
\* groupStates entry among the arguments the model wrote
RepairDue(d) ==
    /\ IsAlertRequest(user_message)
    /\ GetKey(d.v, "tool_name") = JStr("get_monitors")
    /\ \A n \in 1..Len(EntriesWritten(d)) :
           EntriesWritten(d)[n][1] # "groupStates"

\* produced holds the entries provided in their order, and after them
\* groupStates with the alert state only
OnlyGroupStatesAdded(provided, produced) ==
    /\ IsDict(produced)
    /\ Len(produced.v) = Len(provided) + 1
    /\ \A n \in 1..Len(provided) : produced.v[n] = provided[n]
    /\ produced.v[Len(produced.v)] = <<"groupStates", JArr(<<JStr("alert")>>)>>

RepairOnlyAdds(d) ==
    IsInvocation(d) =>
        IF RepairDue(d)
        THEN /\ IsDict(tool_call)
             /\ \A n \in 1..Len(d.v.v) :
                    d.v.v[n][1] # "arguments" => tool_call.v[n] = d.v.v[n]
             /\ OnlyGroupStatesAdded(EntriesWritten(d),
                                     DictGet(tool_call, "arguments", JNull))
        ELSE tool_call = d.v

\* C6: for an alert-state query and the tool get_monitors, arguments that hold
\* no groupStates entry, the null the model may write for them among them,
\* get groupStates == ["alert"] and nothing else changes; a groupStates the
\* model wrote stays as written; for another message or another tool the
\* repair changes nothing.
C6_RepairOnlyAddsGroupStates == RepairOnlyAdds(Written)

NoToolCallOutcome(d) ==
    /\ (calls > 0 \/ pc \in {"call", "communicate", "returned", "final"})
           => IsInvocation(d)
    /\ (ollama_response # JNull /\ ~IsInvocation(d)) =>
           /\ tool_call = JNull
           /\ calls = 0
           /\ spawned = 0
           /\ proc = "none"
           /\ chats = 1
           /\ outcome = "returned"
           /\ answer = ollama_response.v
           /\ chat_history = <<Message("assistant", ollama_response.v)>>
           /\ pc \in {"input", "done"}

\* C7: a turn calls the tool only when the candidate text of the reply decodes
\* to an object that holds tool_name; otherwise no tool process is spawned, no
\* exception leaves process_user_input, the model is called once, and the
\* reply is the answer of the turn.
C7_NoToolCallWithoutToolName == NoToolCallOutcome(Written)

ObjectWithoutToolName(d) == d.ok /\ IsDict(d.v) /\ ~HasKey(d.v, "tool_name")

\* C7 witness: the reply held an object without tool_name, and the turn has
\* returned the reply with no call of the tool.
C7_Witness ==
    /\ ObjectWithoutToolName(Written)
    /\ outcome = "returned"
    /\ calls = 0
    /\ answer = ollama_response.v

----------------------------------------------------------------------------
(* The claims about the turn and the session *)

\* the three messages a turn with a tool call appends to the history
ToolTurnMessages ==
    <<Message("assistant", ollama_response.v),
      Message("tool", JsonDumps(tool_result)),
      Message("assistant", answer)>>

\* whether the history ends with the messages msgs
EndsWith(history, msgs) ==
    /\ Len(history) >= Len(msgs)
    /\ SubSeq(history, Len(history) - Len(msgs) + 1, Len(history)) = msgs

ToolFailureIsCaptured(d) ==
    IsInvocation(d) =>
        /\ outcome = "raised" => answer = OllamaFault
        /\ pc \in {"returned", "final"} =>
              IsError(tool_result) \/ IsResult(tool_result)
        /\ outcome = "returned" =>
              /\ calls = 1
              /\ chats = 2
              /\ answer \in FinalReplies
              /\ EndsWith(chat_history, ToolTurnMessages)

\* C11: a turn in which the reply held a tool call ends with the answer of the
\* second call of the model, after the result of the tool, error results
\* among them, went to the history as a tool message; no exception but a
\* failure of the model itself unwinds such a turn.
C11_ToolFailureIsCapturedAsResult == ToolFailureIsCaptured(Written)

\* a turn that raised has left an error message and main is back at its
\* prompt, where it reads the next line
LoopSurvivesFault ==
    /\ outcome = "raised" =>
          /\ errors > 0
          /\ pc \in {"input", "done"}
    /\ (pc = "input" /\ turns < MaxTurns) =>
          ENABLED (\/ MainReadExit(SessionInputs, MaxTurns)
                   \/ MainReadInput(SessionInputs, MaxTurns))

\* main leaves its loop by reading exit or quit only, its step at the prompt
\* is the read of a line, and each fault prints one message and leads back to
\* the prompt
LoopEndsByExitOnly ==
    /\ (pc' = "done" /\ pc # "done") => MainReadExit(SessionInputs, MaxTurns)
    /\ pc = "input" =>
          \/ MainReadExit(SessionInputs, MaxTurns)
          \/ MainReadInput(SessionInputs, MaxTurns)
    /\ errors' # errors =>
          /\ errors' = errors + 1
          /\ outcome' = "raised"
          /\ pc' = "input"

\* C12: a fault raised while a turn is processed ends that turn only, with an
\* error message; the loop of main does not end, reads the next input
\* afterwards, and ends only when the user enters exit or quit.
C12_FaultEndsOnlyTheTurn == [](LoopSurvivesFault) /\ [][LoopEndsByExitOnly]_vars

\* whether no two of the request ids ids are the same
AllDifferent(ids) ==
    \A i \in 1..Len(ids) : \A j \in 1..Len(ids) : i # j => ids[i] # ids[j]

\* C13: any two invocations of call_mcp_tool in the lifetime of the program,
\* however close in time, generate different request ids.
C13_RequestIdsAreUnique == AllDifferent(request_ids)

\* params.arguments of what a request line decodes to
ArgumentsIn(decoded) ==
    IF decoded.ok /\ IsDict(decoded.v) /\ HasKey(decoded.v, "params")
    THEN DictGet(GetKey(decoded.v, "params"), "arguments", JNull)
    ELSE JNull

\* params.arguments of the request line of the state, once one was written
RequestArguments ==
    IF request_json = "" THEN JNull ELSE ArgumentsIn(JsonLoads(request_json))

\* no member of sent is null, and every member of the tool call's arguments
\* that is not null is in sent with its value
NullsDropped(extracted, sent) ==
    /\ IsDict(sent)
    /\ \A n \in 1..Len(sent.v) : sent.v[n][2] # JNull
    /\ \A n \in 1..Len(extracted.v) :
          extracted.v[n][2] # JNull =>
              /\ HasKey(sent, extracted.v[n][1])
              /\ GetKey(sent, extracted.v[n][1]) = extracted.v[n][2]

\* what call_mcp_tool is entered with holds the members of the tool call's
\* arguments that are not null, and no other
NullsDroppedBeforeDispatch(extracted, dispatched) ==
    /\ NullsDropped(extracted, dispatched)
    /\ \A n \in 1..Len(dispatched.v) :
          /\ HasKey(extracted, dispatched.v[n][1])
          /\ GetKey(extracted, dispatched.v[n][1]) = dispatched.v[n][2]

NoNullArgumentIsSent(extracted, sent) ==
    /\ pc = "call" => NullsDroppedBeforeDispatch(extracted, arguments)
    /\ request_json # "" => NullsDropped(extracted, sent)

\* C14: in every request written to the tool process no entry of
\* params.arguments is null: the null arguments of the extracted tool call are
\* dropped before dispatch, and its other arguments are kept with their
\* values.
C14_NoNullArgumentIsSent ==
    (calls > 0 /\ pc \in {"call", "communicate", "returned", "final"}) =>
        NoNullArgumentIsSent(ArgumentsOfCall(tool_call), RequestArguments)

NullDroppedAndOtherKept(extracted, sent) ==
    /\ HasKey(extracted, "pagination")
    /\ GetKey(extracted, "pagination") = JNull
    /\ ~HasKey(sent, "pagination")
    /\ HasKey(extracted, "filter")
    /\ DictGet(sent, "filter", JNull) = GetKey(extracted, "filter")

\* C14 witness: the tool call held a null pagination and a filter, and the
\* request written to the process holds the filter and no pagination.
C14_Witness ==
    /\ pc = "communicate"
    /\ calls = 1
    /\ IsDict(RequestArguments)
    /\ NullDroppedAndOtherKept(ArgumentsOfCall(tool_call), RequestArguments)

\* whether a value is a list that is not empty
IsFilledList(x) == IsList(x) /\ Len(x.v) > 0

\* whether an object holds a member of the name key that fits
HoldsFitting(x, key, Fits(_)) == IsDict(x) /\ HasKey(x, key) /\ Fits(GetKey(x, key))

FirstHoldsText(content) ==
    IsFilledList(content) /\ HoldsFitting(content.v[1], "text", IsStr)

ResultHoldsText(result) == HoldsFitting(result, "content", FirstHoldsText)

\* whether a response keeps the envelope result.content[0].text, the text
\* being a string
KeepsEnvelope(response) == HoldsFitting(response, "result", ResultHoldsText)

BrokenEnvelopeGivesError(m) ==
    (m.found /\ HasKey(m.response, "result") /\ ~KeepsEnvelope(m.response)) =>
        /\ pc = "returned"
        /\ IsError(tool_result)
        /\ ~IsResult(tool_result)

\* C15: a matched response that holds a result which leaves the envelope
\* result.content[0].text (no content, an empty one, one that is no list, a
\* first element without text, a text that is no string) gives an error
\* result, never a success and never an exception.
C15_BrokenEnvelopeGivesError == BrokenEnvelopeGivesError(Matched)

EmptyContentGaveError(m) ==
    /\ m.found
    /\ DictGet(m.response, "result", JNull) = JObj(<< <<"content", JArr(<<>>)>> >>)
    /\ IsError(tool_result)
    /\ Contains(ErrorText(tool_result), "list index out of range")

\* C15 witness: the matched response held a result with an empty content, and
\* the call has returned the error of the extraction.
C15_Witness == OutputScanned /\ EmptyContentGaveError(Matched)

\* whether the sequence earlier is a prefix of later
IsPrefix(earlier, later) ==
    /\ Len(earlier) <= Len(later)
    /\ SubSeq(later, 1, Len(earlier)) = earlier

\* C16: the history main holds is append-only: in every step of the session,
\* those of turns that end in a fault among them, the history before the step
\* is a prefix of the history after it, so that no message is ever removed,
\* reordered or rewritten.
C16_HistoryIsAppendOnly == [][IsPrefix(chat_history, chat_history')]_vars

\* C16 witness: a turn whose second model call failed has left its reply and
\* its tool message in the history, and the next turn has appended its answer
\* after them.
C16_Witness ==
    /\ errors = 1
    /\ turns = 2
    /\ pc = "input"
    /\ outcome = "returned"
    /\ Len(chat_history) = 3
    /\ chat_history[2].role = "tool"
    /\ chat_history[3] = Message("assistant", answer)

\* a turn has ended, by its answer or by an exception
TurnEnded == outcome \in {"returned", "raised"}

\* the counts of a turn: at most two calls of the model, one call of the tool
\* and one process; the tool is called after the first reply only, and the
\* model is called again only after the tool was called; a turn that ended
\* after a tool call was detected has run one tool process and has called the
\* model a second time, and one without has called no tool and the model once
TurnCounts ==
    /\ chats \in 0..2
    /\ calls \in 0..1
    /\ spawned \in 0..1
    /\ (TurnEnded /\ Truthy(tool_call)) =>
          (calls = 1 /\ spawned = 1 /\ chats = 2)
    /\ (TurnEnded /\ ~Truthy(tool_call)) =>
          (calls = 0 /\ chats = 1)
    /\ calls = 1 => (ollama_response # JNull /\ Truthy(tool_call))
    /\ chats = 2 => calls = 1
    /\ pc \in {"call", "communicate", "returned"} => (chats = 1 /\ calls = 1)
    /\ pc = "final" => (chats = 2 /\ calls = 1)

\* the steps of a turn in their order: the tool is called in the step that
\* takes the first reply; a process is spawned within that call; the model is
\* called again once the call has returned a result; the answer is the first
\* reply of a turn without tool call or the second reply of a turn with one
TurnOrder ==
    /\ calls' > calls =>
          /\ pc = "chat" /\ pc' = "call"
          /\ chats = 1
          /\ ollama_response = JNull /\ ollama_response' # JNull
          /\ Truthy(tool_call')
    /\ (spawned' = spawned + 1) =>
          /\ pc = "call" /\ pc' = "communicate"
          /\ spawned = 0
          /\ calls = 1 /\ chats = 1
    /\ (chats' = 2 /\ chats = 1) =>
          /\ pc = "returned" /\ pc' = "final"
          /\ IsError(tool_result) \/ IsResult(tool_result)
    /\ (outcome' = "returned" /\ outcome = "running") =>
          \/ pc = "chat" /\ chats = 1 /\ calls = 0 /\ ~Truthy(tool_call')
          \/ pc = "final" /\ chats = 2 /\ calls = 1

\* C17: in every turn the first call of the model comes first, then the
\* extraction, then, only for a detected tool call, exactly one execution of
\* the tool process, then exactly one second call of the model after the
\* tool has returned, then the answer.
C17_TurnEventsInOrder == [](TurnCounts) /\ [][TurnOrder]_vars

\* whether the history holds the message msg before its last message
HeldBeforeLast(history, msg) ==
    \E n \in 1..(Len(history) - 1) : history[n] = msg

\* C18: after each completed turn the history holds the user message of the
\* turn, before the assistant and tool messages of the turn.
C18_HistoryHoldsUserMessages ==
    (pc = "input" /\ outcome = "returned") =>
        HeldBeforeLast(chat_history, Message("user", user_message))

\* params.name of what a request line decodes to
NameIn(decoded) ==
    IF decoded.ok /\ IsDict(decoded.v) /\ HasKey(decoded.v, "params")
    THEN DictGet(GetKey(decoded.v, "params"), "name", JNull)
    ELSE JNull

\* the request line holds the tool name and the null-cleaned arguments of the
\* tool call, and no other argument
SentAsExtracted(decoded) ==
    /\ NameIn(decoded) = DictGet(tool_call, "tool_name", JNull)
    /\ IsDict(ArgumentsIn(decoded))
    /\ NullsDroppedBeforeDispatch(ArgumentsOfCall(tool_call), ArgumentsIn(decoded))

\* C19: for every tool call, params.name and params.arguments of the request
\* written to the process are the tool name and the null-cleaned arguments of
\* the tool call that extraction and repair produced; call_mcp_tool adds,
\* changes and removes no argument.
C19_RequestCarriesTheInvocation ==
    (calls > 0 /\ request_json # "") => SentAsExtracted(JsonLoads(request_json))
====
